---- MODULE Spec2Model ----
(***************************************************************************)
(* Service-principal secret lifecycle: provisioning, renewal and the       *)
(* expiry notification runs.  Three runners of the repository are          *)
(* modelled, each over the tables it reads and writes:                     *)
(*   "flask"   app.py / controllers.py / services.py / clients.py          *)
(*             (tables user_info and app_secrets, Microsoft Graph)         *)
(*   "monitor" monitor_spn_expiry.py (one-table user_info with expires_on) *)
(*   "check"   check_expiry_and_notify.py (same one-table schema)          *)
(* Time is counted in minutes.                                             *)
(***************************************************************************)
EXTENDS Integers, Sequences, FiniteSets, TLC

(* ---------------------------- bounds ----------------------------------- *)
NumApps == 2
MaxSecrets == 2
MaxTicks == 3
MaxFailures == 1
MaxInflight == 2

(* ------------------------ program constants ---------------------------- *)
ExpiryThresholdDays == 30
ResendIntervalDays == 2
ProdExpiryDays == 730
TestExpiryMinutes == 10
CheckWindowMinutes == 2

Day == 24 * 60
NULL == 0 - 1

Apps == 1..NumApps
ProdExpiry == ProdExpiryDays * Day
ExpiryOf(testing) == IF testing THEN TestExpiryMinutes ELSE ProdExpiry
TickSteps == {Day}
\* values of the request argument 'days' of /notify_expiry: the default and a
\* window as long as a production secret lives
DaysArgs == {ExpiryThresholdDays, ProdExpiryDays}

VARIABLES
  program,      \* which runner is deployed
  is_testing,   \* EXPIRY_TEST_MODE of the deployed process
  now,          \* the clock (datetime.now / GETDATE), in minutes
  ticks,        \* number of clock advances so far
  user_info,    \* flask: table user_info, id = index
  app_secrets,  \* flask: table app_secrets, id = index
  azure,        \* flask: Microsoft Graph, per display name
  inflight,     \* flask: create requests past the name check, per name
  spn_info,     \* monitor/check: one-table user_info (with expires_on)
  mon_pc,       \* monitor: position inside main()
  runlog,       \* per-row record of the current / most recent run
  last_op,      \* the last operation performed and what it returned
  overlap       \* flask: notification runs in progress at the same time

vars ==
  <<program, is_testing, now, ticks, user_info, app_secrets, azure, inflight,
    spn_info, mon_pc, runlog, last_op, overlap>>

(* ------------------------------ helpers -------------------------------- *)
\* A notification request that is not running, and no request running.
NoRun == [pc |-> "idle", column |-> "none", q |-> NULL, todo |-> <<>>,
          snap |-> <<>>, hist |-> {}]
NoOverlap == [base |-> <<>>, run |-> <<NoRun, NoRun>>]

Max(S) == CHOOSE x \in S : \A y \in S : y <= x
Min(S) == CHOOSE x \in S : \A y \in S : x <= y

RECURSIVE SortedSeq(_)
SortedSeq(S) ==
  IF S = {} THEN <<>> ELSE <<Min(S)>> \o SortedSeq(S \ {Min(S)})

Ids(tbl) == 1..Len(tbl)

(* --------------------------- services.py ------------------------------- *)

\* SELECT TOP 1 id FROM user_info WHERE app_name = ? ORDER BY created_date DESC
\* (created_date is GETDATE() at insertion, so the newest row has the highest id)
LatestUserInfoId(ui, app) ==
  LET S == {i \in Ids(ui) : ui[i].app_name = app}
  IN IF S = {} THEN NULL ELSE Max(S)

\* NewSecretRow with the upcoming flag inserted as 1.
NewSecretRow_flagged(app, key_id, end_date, uid, t) ==
  [app_name |-> app, key_id |-> key_id, end_date |-> end_date,
   notified_upcoming |-> TRUE,
   notified_expired |-> FALSE, notified_renewal |-> FALSE,
   last_updated_at |-> t, user_info_id |-> uid]

NewSecretRow(app, key_id, end_date, uid, t) ==
  [app_name |-> app, key_id |-> key_id, end_date |-> end_date,
   notified_upcoming |-> FALSE,
   notified_expired |-> FALSE, notified_renewal |-> FALSE,
   last_updated_at |-> t, user_info_id |-> uid]

\* db in {"ok", "down", "secret_fail"}: the connection fails, or the
\* second INSERT raises after the first one was committed.
store_user_and_secret(ui, sec, app, key_id, end_date, t, db) ==
  IF db = "down" THEN [ok |-> FALSE, ui |-> ui, sec |-> sec]
  ELSE LET ui2 == Append(ui, [app_name |-> app])
           uid == LatestUserInfoId(ui2, app)
       IN IF db = "secret_fail"
          THEN [ok |-> FALSE, ui |-> ui2, sec |-> sec]
          ELSE [ok |-> TRUE, ui |-> ui2,
                sec |-> Append(sec, NewSecretRow(app, key_id, end_date, uid, t))]

\* fetchone()[0] raises when no user_info row exists; the handler returns False.
add_new_secret(ui, sec, app, key_id, end_date, t, db) ==
  LET uid == LatestUserInfoId(ui, app)
  IN IF db # "ok" \/ uid = NULL THEN [ok |-> FALSE, sec |-> sec]
     ELSE [ok |-> TRUE,
           sec |-> Append(sec, NewSecretRow(app, key_id, end_date, uid, t))]

update_secret_expiry(sec, id, new_end_date, t) ==
  [sec EXCEPT ![id].end_date = new_end_date, ![id].last_updated_at = t]

\* mark_secret_notified writing a time one resend interval in the past.
mark_secret_notified_backdated(sec, id, column, t) ==
  LET past == t - ResendIntervalDays * Day
  IN IF column = "notified_upcoming"
     THEN [sec EXCEPT ![id].notified_upcoming = TRUE, ![id].last_updated_at = past]
     ELSE IF column = "notified_expired"
     THEN [sec EXCEPT ![id].notified_expired = TRUE, ![id].last_updated_at = past]
     ELSE IF column = "notified_renewal"
     THEN [sec EXCEPT ![id].notified_renewal = TRUE, ![id].last_updated_at = past]
     ELSE sec

mark_secret_notified(sec, id, column, t) ==
  IF column = "notified_upcoming"
  THEN [sec EXCEPT ![id].notified_upcoming = TRUE, ![id].last_updated_at = t]
  ELSE IF column = "notified_expired"
  THEN [sec EXCEPT ![id].notified_expired = TRUE, ![id].last_updated_at = t]
  ELSE IF column = "notified_renewal"
  THEN [sec EXCEPT ![id].notified_renewal = TRUE, ![id].last_updated_at = t]
  ELSE sec

\* get_expiring_secrets with the resend comparison made strict.
get_expiring_secrets_strict(sec, t, days, resend_interval_days) ==
  {i \in Ids(sec) :
     /\ sec[i].end_date >= t
     /\ sec[i].end_date <= t + days * Day
     /\ \/ ~sec[i].notified_upcoming
        \/ /\ sec[i].notified_upcoming
           /\ sec[i].last_updated_at < t - resend_interval_days * Day}

\* WHERE end_date BETWEEN now AND now + days AND (notified_upcoming = 0 OR
\*   (notified_upcoming = 1 AND last_updated_at <= DATEADD(day, -resend, now)))
get_expiring_secrets(sec, t, days, resend_interval_days) ==
  {i \in Ids(sec) :
     /\ sec[i].end_date >= t
     /\ sec[i].end_date <= t + days * Day
     /\ \/ ~sec[i].notified_upcoming
        \/ /\ sec[i].notified_upcoming
           /\ sec[i].last_updated_at <= t - resend_interval_days * Day}

\* get_expired_secrets without the clause on the flag and the last update.
get_expired_secrets_unthrottled(sec, t, resend_interval_days) ==
  {i \in Ids(sec) : sec[i].end_date < t}

\* WHERE end_date < now AND (notified_expired = 0 OR
\*   (notified_expired = 1 AND last_updated_at <= DATEADD(day, -resend, now)))
get_expired_secrets(sec, t, resend_interval_days) ==
  {i \in Ids(sec) :
     /\ sec[i].end_date < t
     /\ \/ ~sec[i].notified_expired
        \/ /\ sec[i].notified_expired
           /\ sec[i].last_updated_at <= t - resend_interval_days * Day}

\* The lookup the controller calls for the owner of a secret row: the
\* user_info row with that id, or none.
get_user_info_by_id(ui, uid) ==
  IF uid \in Ids(ui) THEN uid ELSE NULL

(* --------------------------- controllers.py ---------------------------- *)

FlagOf(row, column) ==
  IF column = "notified_upcoming" THEN row.notified_upcoming
  ELSE IF column = "notified_expired" THEN row.notified_expired
  ELSE row.notified_renewal

\* Outcome of the body of the for-loop for one secret:
\*   "ok"        owner found, mail sent, flag written
\*   "no_user"   get_user_info_by_id returned nothing  -> continue
\*   "raise"     an exception inside the try block     -> caught, logged
\*   "send_fail" _send_email returned False            -> flag not written
\*   "mark_fail" mail sent, mark_secret_notified could not reach the database
RowOutcomes == {"ok", "no_user", "raise", "send_fail", "mark_fail"}

LogEntry(id, row, column, oc, sent, t) ==
  [id |-> id, app |-> row.app_name, kind |-> column, outcome |-> oc,
   sent |-> sent, flag |-> FlagOf(row, column), last |-> row.last_updated_at,
   expiry |-> row.end_date, at |-> t]

\* NotifyOne without the try/except around the loop body: once the handling
\* of a row has failed, the rows after it are not handled.
NotifyOne_unguarded(st, id, column, oc, t) ==
  LET row == st.sec[id]
      found == /\ oc \notin {"no_user", "raise"}
               /\ get_user_info_by_id(st.ui, row.user_info_id) # NULL
      eff == IF found THEN oc
             ELSE IF oc = "raise" THEN "raise" ELSE "no_user"
      success == eff \in {"ok", "mark_fail"}
  IN IF st.log # <<>> /\ st.log[Len(st.log)].outcome # "ok" THEN st
     ELSE [st EXCEPT
        !.sec = IF eff = "ok" THEN mark_secret_notified(st.sec, id, column, t)
                ELSE st.sec,
        !.log = Append(st.log, LogEntry(id, row, column, eff, success, t)),
        !.count = IF success THEN st.count + 1 ELSE st.count]

\* One iteration of the loop in send_upcoming_expiry_notifications /
\* send_expired_notifications.
NotifyOne(st, id, column, oc, t) ==
  LET row == st.sec[id]
      found == /\ oc \notin {"no_user", "raise"}
               /\ get_user_info_by_id(st.ui, row.user_info_id) # NULL
      eff == IF found THEN oc
             ELSE IF oc = "raise" THEN "raise" ELSE "no_user"
      success == eff \in {"ok", "mark_fail"}
  IN [st EXCEPT
        !.sec = IF eff = "ok" THEN mark_secret_notified(st.sec, id, column, t)
                ELSE st.sec,
        !.log = Append(st.log, LogEntry(id, row, column, eff, success, t)),
        !.count = IF success THEN st.count + 1 ELSE st.count]

RECURSIVE NotifyLoop(_, _, _, _, _)
NotifyLoop(st, todo, column, ocs, t) ==
  IF todo = <<>> THEN st
  ELSE NotifyLoop(NotifyOne(st, Head(todo), column, ocs[Head(todo)], t),
                  Tail(todo), column, ocs, t)

\* send_upcoming_expiry_notifications: the rows come from one query (none when
\* the database cannot be reached), the loop handles them in id order.
send_upcoming_expiry_notifications(ui, sec, days, resend_interval_days, db_ok, ocs, t) ==
  LET due == IF db_ok THEN get_expiring_secrets(sec, t, days, resend_interval_days)
             ELSE {}
      st == NotifyLoop([ui |-> ui, sec |-> sec, log |-> <<>>, count |-> 0],
                       SortedSeq(due), "notified_upcoming", ocs, t)
  IN [sec |-> st.sec, log |-> st.log, reported |-> st.count, status |-> 200]

\* send_expired_notifications: reports len(expired_secrets).
send_expired_notifications(ui, sec, resend_interval_days, db_ok, ocs, t) ==
  LET due == IF db_ok THEN get_expired_secrets(sec, t, resend_interval_days)
             ELSE {}
      st == NotifyLoop([ui |-> ui, sec |-> sec, log |-> <<>>, count |-> 0],
                       SortedSeq(due), "notified_expired", ocs, t)
  IN [sec |-> st.sec, log |-> st.log, reported |-> Cardinality(due),
      status |-> 200]

(* ----------------------------- clients.py ------------------------------ *)

\* regs: applications registered under the display name; creds: number of
\* passwordCredentials; latest: the maximum endDateTime among them.
NoApp == [regs |-> 0, creds |-> 0, latest |-> NULL]

\* POST /applications, /servicePrincipals, /applications/{id}/addPassword:
\* no endDateTime is passed, Graph assigns its default lifetime of two years.
azure_create_application(az, app, t) ==
  [az EXCEPT ![app] = [regs |-> @.regs + 1, creds |-> @.creds + 1,
                       latest |-> t + ProdExpiry]]

azure_delete_application(az, app) ==
  [az EXCEPT ![app] = NoApp]

add_password_to_application(az, app, t) ==
  [az EXCEPT ![app].creds = @ + 1, ![app].latest = t + ProdExpiry]

\* The application object with its passwordCredentials, or None: None both
\* when no application has that name and when the request failed.
get_application_with_secrets(az, app, request_ok) ==
  IF request_ok /\ az[app].regs > 0 THEN az[app] ELSE NoApp

\* Truth: the maximum endDateTime registered for the application.
LatestAzureExpiry(az, app) == az[app].latest

(* ----------------------- monitor_spn_expiry.py -------------------------- *)

\* user_info row of the one-table schema read by monitor_spn_expiry.py and
\* check_expiry_and_notify.py.
NewSpnRow(app, expires_on) ==
  [app_name |-> app, expires_on |-> expires_on, notified_upcoming |-> FALSE,
   notified_expired |-> FALSE, notified_renewal |-> FALSE,
   last_notified_at |-> NULL]

\* get_expiring_soon with the end of the window excluded.
get_expiring_soon_exclusive(tbl, t, days, repeat_interval) ==
  {i \in Ids(tbl) :
     /\ tbl[i].expires_on >= t
     /\ tbl[i].expires_on < t + days * Day
     /\ \/ ~tbl[i].notified_upcoming
        \/ tbl[i].last_notified_at = NULL
        \/ tbl[i].last_notified_at <= t - repeat_interval * Day}

\* WHERE expires_on BETWEEN now AND now + days AND (notified_upcoming = 0
\*   OR last_notified_at IS NULL OR last_notified_at <= DATEADD(day, -repeat, now))
get_expiring_soon(tbl, t, days, repeat_interval) ==
  {i \in Ids(tbl) :
     /\ tbl[i].expires_on >= t
     /\ tbl[i].expires_on <= t + days * Day
     /\ \/ ~tbl[i].notified_upcoming
        \/ tbl[i].last_notified_at = NULL
        \/ tbl[i].last_notified_at <= t - repeat_interval * Day}

\* WHERE expires_on < now AND (notified_expired = 0 OR last_notified_at IS NULL
\*   OR last_notified_at <= DATEADD(day, -repeat, now))
mon_get_expired_secrets(tbl, t, repeat_interval) ==
  {i \in Ids(tbl) :
     /\ tbl[i].expires_on < t
     /\ \/ ~tbl[i].notified_expired
        \/ tbl[i].last_notified_at = NULL
        \/ tbl[i].last_notified_at <= t - repeat_interval * Day}

\* WHERE expires_on >= now AND notified_expired = 1 AND notified_renewal = 0
get_renewed_secrets(tbl, t) ==
  {i \in Ids(tbl) :
     /\ tbl[i].expires_on >= t
     /\ tbl[i].notified_expired
     /\ ~tbl[i].notified_renewal}

\* mark_as_notified setting the flag of the column and clearing the other two.
mark_as_notified_exclusive(tbl, id, column, t) ==
  [tbl EXCEPT ![id].notified_upcoming = (column = "notified_upcoming"),
              ![id].notified_expired = (column = "notified_expired"),
              ![id].notified_renewal = (column = "notified_renewal"),
              ![id].last_notified_at = t]

mark_as_notified(tbl, id, column, t) ==
  IF column = "notified_upcoming"
  THEN [tbl EXCEPT ![id].notified_upcoming = TRUE, ![id].last_notified_at = t]
  ELSE IF column = "notified_expired"
  THEN [tbl EXCEPT ![id].notified_expired = TRUE, ![id].last_notified_at = t]
  ELSE [tbl EXCEPT ![id].notified_renewal = TRUE, ![id].last_notified_at = t]

\* Outcome of one iteration of a loop of main():
\*   "ok"        send_email delivered the mail, the flag was written
\*   "send_fail" send_email caught an SMTP error (it returns nothing)
\*   "mark_fail" the mail was delivered, _execute_query failed to write the flag
MonOutcomes == {"ok", "send_fail", "mark_fail"}

MonLogEntry(id, row, column, oc, sent, t) ==
  [id |-> id, app |-> row.app_name, kind |-> column, outcome |-> oc,
   sent |-> sent, flag |-> FlagOf(row, column), last |-> row.last_notified_at,
   expiry |-> row.expires_on, at |-> t]

\* send_email(...) followed by mark_as_notified(...), whatever send_email did.
MonOne(st, id, column, oc, t) ==
  LET row == st.tbl[id]
      delivered == oc \in {"ok", "mark_fail"}
  IN [tbl |-> IF oc = "mark_fail" THEN st.tbl
              ELSE mark_as_notified(st.tbl, id, column, t),
      log |-> Append(st.log, MonLogEntry(id, row, column, oc, delivered, t))]

RECURSIVE MonLoop(_, _, _, _, _)
MonLoop(st, todo, column, ocs, t) ==
  IF todo = <<>> THEN st
  ELSE MonLoop(MonOne(st, Head(todo), column, ocs[Head(todo)], t),
               Tail(todo), column, ocs, t)

(* --------------------- check_expiry_and_notify.py ----------------------- *)

\* SELECT ... FROM user_info WHERE expires_on <= utcnow() + 2 minutes
check_results(tbl, t) ==
  {i \in Ids(tbl) : tbl[i].expires_on <= t + CheckWindowMinutes}

ChkOutcomes == {"ok", "send_fail"}

ChkOne(st, id, oc, t) ==
  [tbl |-> st.tbl,
   log |-> Append(st.log,
             [id |-> id, app |-> st.tbl[id].app_name, kind |-> "reminder",
              outcome |-> oc, sent |-> (oc = "ok"), flag |-> FALSE,
              last |-> NULL, expiry |-> st.tbl[id].expires_on, at |-> t])]

RECURSIVE ChkLoop(_, _, _, _)
ChkLoop(st, todo, ocs, t) ==
  IF todo = <<>> THEN st
  ELSE ChkLoop(ChkOne(st, Head(todo), ocs[Head(todo)], t), Tail(todo), ocs, t)

(* ------------------------------ actions -------------------------------- *)

\* The outcomes of one run: every due row gets an outcome, at most
\* MaxFailures of them other than "ok".
RunOutcomes(due, outcomes) ==
  {f \in [due -> outcomes] : Cardinality({i \in due : f[i] # "ok"}) <= MaxFailures}

\* What the last operation was and what it returned.  For a run: arg is the
\* 'days' argument, reported the number the run reports, db_ok whether its
\* query reached the database, graph_ok whether Microsoft Graph could be
\* queried while it ran, seq = 2 when the same script ran immediately before.
Op(name, arg, status) ==
  [name |-> name, arg |-> arg, status |-> status, reported |-> 0,
   db_ok |-> TRUE, graph_ok |-> TRUE, seq |-> 1]

RunOp(name, arg, status, reported, db_ok, graph_ok, seq) ==
  [name |-> name, arg |-> arg, status |-> status, reported |-> reported,
   db_ok |-> db_ok, graph_ok |-> graph_ok, seq |-> seq]

\* The log of a finished run is dropped by the next operation; inside a run
\* of main() it is kept.
KeepLog == IF mon_pc = "idle" THEN <<>> ELSE runlog

Tick(d) ==
  /\ ticks < MaxTicks
  /\ now' = now + d
  /\ ticks' = ticks + 1
  /\ last_op' = Op("tick", 0, 0)
  /\ runlog' = KeepLog
  /\ UNCHANGED <<program, inflight, overlap, is_testing, user_info, app_secrets, azure, spn_info, mon_pc>>

CreateOutcomes ==
  {"ok", "db_down", "token_fail", "azure_fail", "store_down",
   "store_secret_fail", "mail_fail"}

\* AppController.create_application
CreateApplication(app, oc) ==
  /\ program = "flask"
  /\ Len(user_info) < MaxSecrets
  /\ Len(app_secrets) < MaxSecrets
  /\ LET expires_on == now + ExpiryOf(is_testing)
         created == azure_create_application(azure, app, now)
         db == IF oc = "store_down" THEN "down"
               ELSE IF oc = "store_secret_fail" THEN "secret_fail" ELSE "ok"
         stored == store_user_and_secret(user_info, app_secrets, app, "initial",
                                         expires_on, now, db)
     IN IF oc = "db_down" \/ oc = "token_fail"
        THEN /\ last_op' = Op("create", app, 500)
             /\ UNCHANGED <<user_info, app_secrets, azure>>
        ELSE IF azure[app].regs > 0
        THEN /\ last_op' = Op("create", app, 409)
             /\ UNCHANGED <<user_info, app_secrets, azure>>
        ELSE IF oc = "azure_fail"
        THEN /\ last_op' = Op("create", app, 500)
             /\ UNCHANGED <<user_info, app_secrets, azure>>
        ELSE IF ~stored.ok
        THEN /\ user_info' = stored.ui
             /\ app_secrets' = stored.sec
             /\ azure' = azure_delete_application(created, app)
             /\ last_op' = Op("create", app, 500)
        ELSE /\ user_info' = stored.ui
             /\ app_secrets' = stored.sec
             /\ azure' = created
             /\ last_op' = Op("create", app, IF oc = "mail_fail" THEN 500 ELSE 200)
  /\ runlog' = <<>>
  /\ UNCHANGED <<program, inflight, overlap, is_testing, now, ticks, spn_info, mon_pc>>

RenewOutcomes ==
  {"ok", "token_fail", "graph_fail", "addpw_fail", "db_fail", "mail_fail"}

\* AppController.renew_application_secret
RenewApplicationSecret(app, oc) ==
  /\ program = "flask"
  /\ Len(app_secrets) < MaxSecrets
  /\ azure[app].creds < MaxSecrets
  /\ LET app_obj == get_application_with_secrets(azure, app, oc # "graph_fail")
         new_expiry_date == now + ExpiryOf(is_testing)
         added == add_new_secret(user_info, app_secrets, app, "renewed",
                                 new_expiry_date, now,
                                 IF oc = "db_fail" THEN "down" ELSE "ok")
     IN IF oc = "token_fail"
        THEN /\ last_op' = Op("renew", app, 500)
             /\ UNCHANGED <<app_secrets, azure>>
        ELSE IF app_obj = NoApp
        THEN /\ last_op' = Op("renew", app, 404)
             /\ UNCHANGED <<app_secrets, azure>>
        ELSE IF oc = "addpw_fail"
        THEN /\ last_op' = Op("renew", app, 500)
             /\ UNCHANGED <<app_secrets, azure>>
        ELSE /\ azure' = add_password_to_application(azure, app, now)
             /\ app_secrets' = added.sec
             /\ last_op' = Op("renew", app, IF added.ok THEN 200 ELSE 500)
  /\ runlog' = <<>>
  /\ UNCHANGED <<program, inflight, overlap, is_testing, now, ticks, user_info, spn_info, mon_pc>>

\* UserService.update_secret_expiry, called with a new end date for a row.
UpdateSecretExpiry(id, db_ok) ==
  /\ program = "flask"
  /\ id \in Ids(app_secrets)
  /\ app_secrets' = IF db_ok
                    THEN update_secret_expiry(app_secrets, id,
                                              now + ExpiryOf(is_testing), now)
                    ELSE app_secrets
  /\ last_op' = Op("update_expiry", id, IF db_ok THEN 200 ELSE 500)
  /\ runlog' = <<>>
  /\ UNCHANGED <<program, inflight, overlap, is_testing, now, ticks, user_info, azure, spn_info, mon_pc>>

\* POST /notify_expiry (app.py): days comes from the request (default 30), the
\* resend interval is 2.
NotifyExpiry(days, db_ok, graph_ok, ocs) ==
  /\ program = "flask"
  /\ LET r == send_upcoming_expiry_notifications(user_info, app_secrets,
                days, ResendIntervalDays, db_ok, ocs, now)
     IN /\ app_secrets' = r.sec
        /\ runlog' = r.log
        /\ last_op' = RunOp("notify_expiry", days, r.status, r.reported, db_ok,
                            graph_ok, 1)
  /\ UNCHANGED <<program, inflight, overlap, is_testing, now, ticks, user_info, azure, spn_info, mon_pc>>

\* POST /notify_expired (app.py)
NotifyExpired(db_ok, graph_ok, ocs) ==
  /\ program = "flask"
  /\ LET r == send_expired_notifications(user_info, app_secrets,
                ResendIntervalDays, db_ok, ocs, now)
     IN /\ app_secrets' = r.sec
        /\ runlog' = r.log
        /\ last_op' = RunOp("notify_expired", 0, r.status, r.reported, db_ok,
                            graph_ok, 1)
  /\ UNCHANGED <<program, inflight, overlap, is_testing, now, ticks, user_info, azure, spn_info, mon_pc>>

\* A row of the one-table schema is inserted when a service principal is
\* provisioned: planned expiry, all flags false, never notified.
Provision(app) ==
  /\ program \in {"monitor", "check"}
  /\ mon_pc = "idle"
  /\ Len(spn_info) < MaxSecrets
  /\ \A i \in Ids(spn_info) : spn_info[i].app_name # app
  /\ spn_info' = Append(spn_info, NewSpnRow(app, now + ExpiryOf(is_testing)))
  /\ last_op' = Op("provision", app, 200)
  /\ runlog' = KeepLog
  /\ UNCHANGED <<program, inflight, overlap, is_testing, now, ticks, user_info, app_secrets, azure, mon_pc>>

\* The secret of a row is renewed: expires_on moves to the new expiry
\* ("previously expired but have now been updated").
RenewRow(id) ==
  /\ program = "monitor"
  /\ mon_pc = "idle"
  /\ id \in Ids(spn_info)
  /\ spn_info[id].expires_on < now + ExpiryOf(is_testing)
  /\ spn_info' = [spn_info EXCEPT ![id].expires_on = now + ExpiryOf(is_testing)]
  /\ last_op' = Op("renew_row", id, 200)
  /\ runlog' = KeepLog
  /\ UNCHANGED <<program, inflight, overlap, is_testing, now, ticks, user_info, app_secrets, azure, mon_pc>>

\* main(), step 1: expiring soon (30 days window, repeat every 2 days)
MonExpiringSoon(db_ok, ocs) ==
  /\ program = "monitor"
  /\ mon_pc = "idle"
  /\ LET due == IF db_ok
                THEN get_expiring_soon(spn_info, now, ExpiryThresholdDays,
                                       ResendIntervalDays)
                ELSE {}
         st == MonLoop([tbl |-> spn_info, log |-> <<>>], SortedSeq(due),
                       "notified_upcoming", ocs, now)
     IN /\ spn_info' = st.tbl
        /\ runlog' = st.log
  /\ mon_pc' = "expired"
  /\ last_op' = RunOp("mon_expiring", 0, 0, 0, db_ok, TRUE, 1)
  /\ UNCHANGED <<program, inflight, overlap, is_testing, now, ticks, user_info, app_secrets, azure>>

\* main(), step 2: expired secrets (repeat every 2 days until renewal)
MonExpired(db_ok, ocs) ==
  /\ program = "monitor"
  /\ mon_pc = "expired"
  /\ LET due == IF db_ok
                THEN mon_get_expired_secrets(spn_info, now, ResendIntervalDays)
                ELSE {}
         st == MonLoop([tbl |-> spn_info, log |-> runlog], SortedSeq(due),
                       "notified_expired", ocs, now)
     IN /\ spn_info' = st.tbl
        /\ runlog' = st.log
  /\ mon_pc' = "renewed"
  /\ last_op' = RunOp("mon_expired", 0, 0, 0, db_ok, TRUE, 1)
  /\ UNCHANGED <<program, inflight, overlap, is_testing, now, ticks, user_info, app_secrets, azure>>

\* main(), step 3: renewed secrets (confirmation mail)
MonRenewed(db_ok, ocs) ==
  /\ program = "monitor"
  /\ mon_pc = "renewed"
  /\ LET due == IF db_ok THEN get_renewed_secrets(spn_info, now) ELSE {}
         st == MonLoop([tbl |-> spn_info, log |-> runlog], SortedSeq(due),
                       "notified_renewal", ocs, now)
     IN /\ spn_info' = st.tbl
        /\ runlog' = st.log
  /\ mon_pc' = "idle"
  /\ last_op' = RunOp("mon_renewed", 0, 0, 0, db_ok, TRUE, 1)
  /\ UNCHANGED <<program, inflight, overlap, is_testing, now, ticks, user_info, app_secrets, azure>>

\* check_expiry_and_notify.py, the whole script
CheckRun(ocs) ==
  /\ program = "check"
  /\ LET st == ChkLoop([tbl |-> spn_info, log |-> <<>>],
                       SortedSeq(check_results(spn_info, now)), ocs, now)
     IN runlog' = st.log
  /\ last_op' = RunOp("check_run", 0, 0, 0, TRUE, TRUE,
                      IF last_op.name = "check_run" THEN 2 ELSE 1)
  /\ UNCHANGED <<program, inflight, overlap, is_testing, now, ticks, user_info, app_secrets, azure,
                 spn_info, mon_pc>>

(* --------------------------- specifications ---------------------------- *)

InitCommon ==
  /\ is_testing \in BOOLEAN
  /\ now = 0
  /\ ticks = 0
  /\ user_info = <<>>
  /\ app_secrets = <<>>
  /\ azure = [a \in Apps |-> NoApp]
  /\ inflight = [a \in Apps |-> 0]
  /\ spn_info = <<>>
  /\ mon_pc = "idle"
  /\ runlog = <<>>
  /\ last_op = Op("init", 0, 0)
  /\ overlap = NoOverlap

\* The web application: its routes, the partial-write outcomes left out.
FlaskRoutes(create_ocs, renew_ocs, graph) ==
  \/ \E app \in Apps, oc \in create_ocs : CreateApplication(app, oc)
  \/ \E app \in Apps, oc \in renew_ocs : RenewApplicationSecret(app, oc)
  \/ \E days \in DaysArgs, db_ok \in BOOLEAN, g \in graph :
       \E ocs \in RunOutcomes(get_expiring_secrets(app_secrets, now, days,
                                ResendIntervalDays), RowOutcomes) :
         NotifyExpiry(days, db_ok, g, ocs)
  \/ \E db_ok \in BOOLEAN, g \in graph,
        ocs \in RunOutcomes(get_expired_secrets(app_secrets, now,
                              ResendIntervalDays), RowOutcomes) :
       NotifyExpired(db_ok, g, ocs)

NextFlask ==
  \/ \E d \in TickSteps : Tick(d)
  \/ FlaskRoutes(CreateOutcomes \ {"store_secret_fail"},
                 RenewOutcomes \ {"db_fail"}, {TRUE})

\* The web application with Graph outages during a run and direct calls of
\* UserService.update_secret_expiry.
NextFlaskFull ==
  \/ \E d \in TickSteps : Tick(d)
  \/ FlaskRoutes(CreateOutcomes \ {"store_secret_fail"},
                 RenewOutcomes \ {"db_fail"}, BOOLEAN)
  \/ \E id \in 1..MaxSecrets, ok \in BOOLEAN : UpdateSecretExpiry(id, ok)

NextMonitor ==
  \/ \E d \in TickSteps : Tick(d)
  \/ \E app \in Apps : Provision(app)
  \/ \E id \in 1..MaxSecrets : RenewRow(id)
  \/ \E db_ok \in BOOLEAN,
        ocs \in RunOutcomes(get_expiring_soon(spn_info, now, ExpiryThresholdDays,
                              ResendIntervalDays), MonOutcomes) :
       MonExpiringSoon(db_ok, ocs)
  \/ \E db_ok \in BOOLEAN,
        ocs \in RunOutcomes(mon_get_expired_secrets(spn_info, now,
                              ResendIntervalDays), MonOutcomes) :
       MonExpired(db_ok, ocs)
  \/ \E db_ok \in BOOLEAN,
        ocs \in RunOutcomes(get_renewed_secrets(spn_info, now), MonOutcomes) :
       MonRenewed(db_ok, ocs)

NextCheck ==
  \/ \E d \in TickSteps : Tick(d)
  \/ \E app \in Apps : Provision(app)
  \/ \E ocs \in RunOutcomes(check_results(spn_info, now), ChkOutcomes) :
       CheckRun(ocs)

InitFlask == program = "flask" /\ InitCommon
InitMonitor == program = "monitor" /\ InitCommon
InitCheck == program = "check" /\ InitCommon

\* one of the runners is deployed
Init == program \in {"flask", "monitor", "check"} /\ InitCommon
Next == NextFlask \/ NextMonitor \/ NextCheck

Spec == Init /\ [][Next]_vars
SpecFlask == InitFlask /\ [][NextFlask]_vars
SpecFlaskFull == InitFlask /\ [][NextFlaskFull]_vars
SpecMonitor == InitMonitor /\ [][NextMonitor]_vars
SpecCheck == InitCheck /\ [][NextCheck]_vars

(* ------------------------- reading a run ------------------------------- *)

\* The table the deployed runner reads and writes, and its two columns that
\* are named differently in the two schemas.
Tbl == IF program = "flask" THEN app_secrets ELSE spn_info
ExpiryOfRow(row) == IF program = "flask" THEN row.end_date ELSE row.expires_on
LastOf(row) == IF program = "flask" THEN row.last_updated_at ELSE row.last_notified_at

\* The notification kind an operation sends, "none" when it is not a run.
RunKind(name) ==
  CASE name \in {"notify_expiry", "mon_expiring"} -> "notified_upcoming"
    [] name \in {"notify_expired", "mon_expired"} -> "notified_expired"
    [] name = "mon_renewed" -> "notified_renewal"
    [] name = "check_run" -> "reminder"
    [] OTHER -> "none"

\* The rows the query of a run returns in the current state.
DueRows(name, arg) ==
  CASE name = "notify_expiry" ->
         get_expiring_secrets(app_secrets, now, arg, ResendIntervalDays)
    [] name = "notify_expired" ->
         get_expired_secrets(app_secrets, now, ResendIntervalDays)
    [] name = "mon_expiring" ->
         get_expiring_soon(spn_info, now, ExpiryThresholdDays, ResendIntervalDays)
    [] name = "mon_expired" ->
         mon_get_expired_secrets(spn_info, now, ResendIntervalDays)
    [] name = "mon_renewed" -> get_renewed_secrets(spn_info, now)
    [] name = "check_run" -> check_results(spn_info, now)
    [] OTHER -> {}

\* Positions of runlog' written by the step just taken (steps 2 and 3 of
\* main() append to the log of step 1).
NewIdx ==
  ((IF last_op'.name \in {"mon_expired", "mon_renewed"} THEN Len(runlog) ELSE 0) + 1)
    .. Len(runlog')

\* The window of the run just taken, in days.
DaysOf == IF last_op'.name = "notify_expiry" THEN last_op'.arg ELSE ExpiryThresholdDays

FlagKinds == {"notified_upcoming", "notified_expired"}

\* The condition of a kind on an expiry date at time t.
StillHolds(expiry, k, t, days) ==
  IF k = "notified_upcoming" THEN expiry >= t /\ expiry <= t + days * Day
  ELSE expiry < t

\* Flag set and last notification less than the resend interval ago.
Throttled(row, k) ==
  /\ FlagOf(row, k)
  /\ LastOf(row) # NULL
  /\ now - LastOf(row) < ResendIntervalDays * Day

\* Flag set, last notification at least the resend interval ago, condition
\* still true.
ResendDue(row, k, days) ==
  /\ FlagOf(row, k)
  /\ LastOf(row) # NULL
  /\ now - LastOf(row) >= ResendIntervalDays * Day
  /\ StillHolds(ExpiryOfRow(row), k, now, days)

(* ------------------------------ claims --------------------------------- *)

ThrottleGateStep ==
  \A k \in FlagKinds :
    RunKind(last_op'.name) = k =>
      /\ \A i \in NewIdx :
           (runlog'[i].kind = k /\ runlog'[i].sent) =>
             \/ ~runlog'[i].flag
             \/ runlog'[i].last = NULL
             \/ runlog'[i].at - runlog'[i].last >= ResendIntervalDays * Day
      /\ \A id \in Ids(Tbl) :
           Throttled(Tbl[id], k) =>
             /\ Tbl'[id] = Tbl[id]
             /\ \A i \in NewIdx : runlog'[i].id # id

\* C1: a notification of a kind is sent for a row in a run only if the flag of
\* that kind is false or the last notification is at least the resend interval
\* (2 days) old; a row whose flag is set and that was notified less than 2 days
\* ago gets no email of that kind and is left unchanged by the run.
C1_ThrottleGating == [][ThrottleGateStep]_vars

\* A run of /notify_expired has just passed over an expired row that was
\* notified one day earlier: nothing was sent for it.
C1_Witness ==
  /\ last_op.name = "notify_expired"
  /\ last_op.db_ok
  /\ \E id \in Ids(app_secrets) :
       /\ app_secrets[id].notified_expired
       /\ app_secrets[id].end_date < now
       /\ now - app_secrets[id].last_updated_at = Day
       /\ \A i \in 1..Len(runlog) : runlog[i].id # id

\* C2: a run that immediately follows a run of the same script, with nothing
\* changed in between, sends no email.
C2_Idempotence ==
  [][(RunKind(last_op'.name) # "none" /\ last_op'.seq = 2) =>
       \A i \in NewIdx : ~runlog'[i].sent]_vars

ResendPerRowStep ==
  \A k \in FlagKinds :
    (RunKind(last_op'.name) = k /\ last_op'.db_ok) =>
      \A id \in Ids(Tbl) :
        ResendDue(Tbl[id], k, DaysOf) =>
          LET E == {i \in NewIdx : runlog'[i].id = id /\ runlog'[i].kind = k}
          IN /\ Cardinality(E) = 1
             /\ \A i \in E :
                  /\ runlog'[i].flag
                  /\ runlog'[i].sent <=> runlog'[i].outcome \in {"ok", "mark_fail"}

C4_RenewalResetsFlags ==
  [][\A id \in Ids(app_secrets) :
       app_secrets'[id].end_date > app_secrets[id].end_date =>
         /\ ~app_secrets'[id].notified_upcoming
         /\ ~app_secrets'[id].notified_expired]_vars

\* C5: within one run no application is sent both an expiring-soon and an
\* expired notification.
C5_MutualExclusivity ==
  \A i, j \in 1..Len(runlog) :
    ~ /\ runlog[i].sent /\ runlog[j].sent
      /\ runlog[i].app = runlog[j].app
      /\ runlog[i].kind = "notified_upcoming"
      /\ runlog[j].kind = "notified_expired"

\* C6: when the send of a notification fails, the flags and the
\* last-notification time of the row are left as they were.
C6_SendFailureKeepsState ==
  [][\A i \in NewIdx :
       runlog'[i].outcome = "send_fail" =>
         Tbl'[runlog'[i].id] = Tbl[runlog'[i].id]]_vars

FailureIsolationStep ==
  (RunKind(last_op'.name) # "none" /\ last_op'.db_ok) =>
    \A id \in DueRows(last_op'.name, last_op'.arg) :
      \E i \in NewIdx :
        /\ runlog'[i].id = id
        /\ runlog'[i].kind = RunKind(last_op'.name)
        /\ runlog'[i].outcome = "ok" =>
             /\ runlog'[i].sent
             /\ program # "check" => FlagOf(Tbl'[id], runlog'[i].kind)

C8_PerRunEmailBound ==
  \A a \in Apps, k \in FlagKinds \cup {"notified_renewal", "reminder"} :
    Cardinality({i \in 1..Len(runlog) : /\ runlog[i].sent
                                        /\ runlog[i].app = a
                                        /\ runlog[i].kind = k}) <= 1

\* C9: no notification is sent for an application whose latest expiry in
\* Azure is later than the stored one and beyond the threshold.
C9_AzureIsAuthoritative ==
  program = "flask" =>
    \A i \in 1..Len(runlog) :
      runlog[i].sent =>
        ~ /\ LatestAzureExpiry(azure, runlog[i].app) > runlog[i].expiry
          /\ LatestAzureExpiry(azure, runlog[i].app) >
               runlog[i].at + (IF last_op.name = "notify_expiry" THEN last_op.arg
                               ELSE ExpiryThresholdDays) * Day

\* C10: a run during which Azure cannot be queried sends no email and leaves
\* the stored rows unchanged.
C10_FetchFailureSkips ==
  [][(RunKind(last_op'.name) # "none" /\ ~last_op'.graph_ok) =>
       /\ Tbl' = Tbl
       /\ \A i \in NewIdx : ~runlog'[i].sent]_vars

\* C11: the fetch of an application's credentials tells a failed request from
\* 'not found': the caller is answered 'not found' (404) only when no
\* application of that name is registered.
C11_FetchFailureDistinct ==
  [][(last_op'.name = "renew" /\ last_op'.status = 404) =>
       azure[last_op'.arg].regs = 0]_vars

\* C17: at most one secret row, hence one stored expiry and one set of
\* flags, is tracked per application.
C17_OneCachedExpiry ==
  \A a \in Apps :
    Cardinality({i \in Ids(app_secrets) : app_secrets[i].app_name = a}) <= 1

(* --------------------- a deployment over years -------------------------- *)

\* The clock also advances by the lifetime of a production secret.
LongTickSteps == {Day, ProdExpiry}

NextFlaskYears ==
  \/ \E d \in LongTickSteps : Tick(d)
  \/ FlaskRoutes(CreateOutcomes \ {"store_secret_fail"},
                 RenewOutcomes \ {"db_fail"}, {TRUE})

SpecFlaskYears == InitFlask /\ [][NextFlaskYears]_vars

\* SELECT TOP 1 ... FROM app_secrets WHERE app_name = ? ORDER BY created_date
\* DESC: the id of the most recent secret row of the application.
get_latest_secret(sec, app) ==
  LET S == {i \in Ids(sec) : sec[i].app_name = app}
  IN IF S = {} THEN NULL ELSE Max(S)

\* C12: an application whose most recent secret expires later than the
\* threshold after the run is sent no expiring-soon and no expired email in
\* that run, also when that secret replaced an expired one.
C12_FarFutureNoAction ==
  program = "flask" =>
    \A i \in 1..Len(runlog) :
      (runlog[i].sent /\ runlog[i].kind \in FlagKinds) =>
        app_secrets[get_latest_secret(app_secrets, runlog[i].app)].end_date <=
          runlog[i].at + (IF last_op.name = "notify_expiry" THEN last_op.arg
                          ELSE ExpiryThresholdDays) * Day

\* C13: the run that follows the renewal of a row that had been notified as
\* expired (its expiry is in the future again) handles the row in its renewal
\* step, and after that step the three flags of the row are false.
C13_RenewalConfirmation ==
  [][(last_op'.name = "mon_renewed" /\ last_op'.db_ok) =>
       \A id \in Ids(spn_info) :
         (spn_info[id].notified_expired /\ spn_info[id].expires_on >= now) =>
           /\ \E i \in NewIdx : /\ runlog'[i].id = id
                                /\ runlog'[i].kind = "notified_renewal"
           /\ ~spn_info'[id].notified_upcoming
           /\ ~spn_info'[id].notified_expired
           /\ ~spn_info'[id].notified_renewal]_vars

(* ------------------- rows at the window boundaries ---------------------- *)

\* Distance from the clock to the expiry of the row the runs classify: at the
\* clock and at the end of the default window, one minute before and after.
BoundaryOffsets ==
  {0 - 1, 0, 1, ExpiryThresholdDays * Day - 1, ExpiryThresholdDays * Day,
   ExpiryThresholdDays * Day + 1}

\* A production deployment that has been running for two years and a day:
\* one application, provisioned ProdExpiry before its expiry, never notified.
InitClassify ==
  /\ program \in {"flask", "monitor"}
  /\ is_testing = FALSE
  /\ now = ProdExpiry + Day
  /\ ticks = 0
  /\ inflight = [a \in Apps |-> 0]
  /\ mon_pc = "idle"
  /\ runlog = <<>>
  /\ last_op = Op("init", 0, 0)
  /\ overlap = NoOverlap
  /\ \E off \in BoundaryOffsets :
       LET created == now + off - ProdExpiry
       IN IF program = "flask"
          THEN /\ user_info = <<[app_name |-> 1]>>
               /\ app_secrets = <<NewSecretRow(1, "initial", now + off, 1, created)>>
               /\ azure = azure_create_application([a \in Apps |-> NoApp], 1, created)
               /\ spn_info = <<>>
          ELSE /\ user_info = <<>>
               /\ app_secrets = <<>>
               /\ azure = [a \in Apps |-> NoApp]
               /\ spn_info = <<NewSpnRow(1, now + off)>>

\* Only the clock and the notification runs.
NextClassify ==
  \/ \E d \in TickSteps : Tick(d)
  \/ \E days \in DaysArgs, db_ok \in BOOLEAN :
       \E ocs \in RunOutcomes(get_expiring_secrets(app_secrets, now, days,
                                ResendIntervalDays), RowOutcomes) :
         NotifyExpiry(days, db_ok, TRUE, ocs)
  \/ \E db_ok \in BOOLEAN,
        ocs \in RunOutcomes(get_expired_secrets(app_secrets, now,
                              ResendIntervalDays), RowOutcomes) :
       NotifyExpired(db_ok, TRUE, ocs)
  \/ \E db_ok \in BOOLEAN,
        ocs \in RunOutcomes(get_expiring_soon(spn_info, now, ExpiryThresholdDays,
                              ResendIntervalDays), MonOutcomes) :
       MonExpiringSoon(db_ok, ocs)
  \/ \E db_ok \in BOOLEAN,
        ocs \in RunOutcomes(mon_get_expired_secrets(spn_info, now,
                              ResendIntervalDays), MonOutcomes) :
       MonExpired(db_ok, ocs)
  \/ \E db_ok \in BOOLEAN,
        ocs \in RunOutcomes(get_renewed_secrets(spn_info, now), MonOutcomes) :
       MonRenewed(db_ok, ocs)

SpecClassify == InitClassify /\ [][NextClassify]_vars

UpperBoundaryStep ==
  (RunKind(last_op'.name) = "notified_upcoming" /\ last_op'.db_ok) =>
    \A id \in Ids(Tbl) :
      ~FlagOf(Tbl[id], "notified_upcoming") =>
        /\ ExpiryOfRow(Tbl[id]) = now + DaysOf * Day =>
             \E i \in NewIdx : runlog'[i].id = id
        /\ ExpiryOfRow(Tbl[id]) = now + DaysOf * Day + 1 =>
             \A i \in NewIdx : runlog'[i].id # id

\* C14: a not yet notified secret whose expiry equals now + threshold days
\* exactly is a candidate of the expiring-soon run; one whose expiry is one
\* minute later is not.
C14_UpperBoundary == [][UpperBoundaryStep]_vars

\* An expiring-soon notification has just been sent for a secret that expires
\* exactly at the end of the default window.
C14_Witness ==
  \E i \in 1..Len(runlog) :
    /\ runlog[i].kind = "notified_upcoming"
    /\ runlog[i].sent
    /\ ~runlog[i].flag
    /\ runlog[i].at = now
    /\ runlog[i].expiry = now + ExpiryThresholdDays * Day

\* C15: a secret whose expiry equals now exactly is a candidate of the expired
\* run and not of the expiring-soon run.
C15_LowerBoundary ==
  [][last_op'.db_ok =>
       \A id \in Ids(Tbl) :
         ExpiryOfRow(Tbl[id]) = now =>
           /\ (RunKind(last_op'.name) = "notified_expired"
                 /\ ~FlagOf(Tbl[id], "notified_expired")) =>
                \E i \in NewIdx : runlog'[i].id = id
           /\ RunKind(last_op'.name) = "notified_upcoming" =>
                \A i \in NewIdx : runlog'[i].id # id]_vars

(* --------------------------- notify_expiry.py --------------------------- *)

\* expires_on BETWEEN GETUTCDATE() AND DATEADD(DAY, 30, GETUTCDATE())
NotifyWindowDays == 30

\* user_info row as read by notify_expiry.py: its columns app_name,
\* expires_on and notified.  sent_at is not a column: it records when
\* handle_expired_secrets last sent a mail for the row.
NewNotifyRow(app, expires_on) ==
  [app_name |-> app, expires_on |-> expires_on, notified |-> FALSE,
   sent_at |-> NULL]

\* WHERE expires_on BETWEEN now AND now + 30 days
\*   AND (notified = 0 OR notified IS NULL)
notify_query(tbl, t) ==
  {i \in Ids(tbl) :
     /\ tbl[i].expires_on >= t
     /\ tbl[i].expires_on <= t + NotifyWindowDays * Day
     /\ ~tbl[i].notified}

\* Outcome of the try block for one row: send_message, then the UPDATE and
\* the commit; an exception in either is caught and printed.
NfyOutcomes == {"ok", "send_fail", "mark_fail"}

NfyOne(st, id, oc, t) ==
  LET row == st.tbl[id]
  IN [tbl |-> IF oc = "ok"
              THEN [st.tbl EXCEPT ![id].notified = TRUE, ![id].sent_at = t]
              ELSE IF oc = "mark_fail"
              THEN [st.tbl EXCEPT ![id].sent_at = t]
              ELSE st.tbl,
      log |-> Append(st.log,
                [id |-> id, app |-> row.app_name, kind |-> "notified",
                 outcome |-> oc, sent |-> (oc \in {"ok", "mark_fail"}),
                 flag |-> row.notified, last |-> row.sent_at,
                 expiry |-> row.expires_on, at |-> t])]

RECURSIVE NfyLoop(_, _, _, _)
NfyLoop(st, todo, ocs, t) ==
  IF todo = <<>> THEN st
  ELSE NfyLoop(NfyOne(st, Head(todo), ocs[Head(todo)], t), Tail(todo), ocs, t)

\* A row of the table read by notify_expiry.py is inserted when a service
\* principal is provisioned.
ProvisionNotify(app) ==
  /\ program = "notify"
  /\ Len(spn_info) < MaxSecrets
  /\ \A i \in Ids(spn_info) : spn_info[i].app_name # app
  /\ spn_info' = Append(spn_info, NewNotifyRow(app, now + ExpiryOf(is_testing)))
  /\ last_op' = Op("provision", app, 200)
  /\ runlog' = <<>>
  /\ UNCHANGED <<program, inflight, overlap, is_testing, now, ticks, user_info, app_secrets, azure, mon_pc>>

\* handle_expired_secrets(), the whole function; when the connection or the
\* query raises it returns an error and nothing was done.
NotifyRun(db_ok, ocs) ==
  /\ program = "notify"
  /\ LET due == IF db_ok THEN notify_query(spn_info, now) ELSE {}
         st == NfyLoop([tbl |-> spn_info, log |-> <<>>], SortedSeq(due), ocs, now)
     IN /\ spn_info' = st.tbl
        /\ runlog' = st.log
        /\ last_op' = RunOp("notify_run", 0, 0, Len(st.log), db_ok, TRUE, 1)
  /\ UNCHANGED <<program, inflight, overlap, is_testing, now, ticks, user_info, app_secrets, azure, mon_pc>>

NextNotify ==
  \/ \E d \in TickSteps : Tick(d)
  \/ \E app \in Apps : ProvisionNotify(app)
  \/ \E db_ok \in BOOLEAN,
        ocs \in RunOutcomes(notify_query(spn_info, now), NfyOutcomes) :
       NotifyRun(db_ok, ocs)

InitNotify == program = "notify" /\ InitCommon

SpecNotify == InitNotify /\ [][NextNotify]_vars

\* When the last notification about the expiry of a row was sent, NULL when
\* none was.
LastSentExpired(row) ==
  IF program = "notify" THEN row.sent_at
  ELSE IF row.notified_expired THEN LastOf(row) ELSE NULL

\* C16: a run that handles expired secrets, reaches the database and whose
\* sends succeed notifies again every secret that is still expired and whose
\* last notification is at least the resend interval (2 days) old.
C16_RepeatReminders ==
  [][(/\ last_op'.name \in {"notify_expired", "mon_expired", "notify_run"}
      /\ last_op'.db_ok
      /\ \A i \in NewIdx : runlog'[i].outcome = "ok") =>
       \A id \in Ids(Tbl) :
         (/\ ExpiryOfRow(Tbl[id]) < now
          /\ LastSentExpired(Tbl[id]) # NULL
          /\ now - LastSentExpired(Tbl[id]) >= ResendIntervalDays * Day) =>
           \E i \in NewIdx : runlog'[i].id = id /\ runlog'[i].sent]_vars

\* C18: the last-notification time of a tracked row never decreases.
C18_LastNotifiedMonotone ==
  [][\A id \in Ids(Tbl) : LastOf(Tbl'[id]) >= LastOf(Tbl[id])]_vars

\* A run has just moved the last-notification time of a row that had been
\* notified before to the time of the run.
C18_Witness ==
  \E i \in 1..Len(runlog) :
    /\ runlog[i].last # NULL
    /\ runlog[i].flag
    /\ runlog[i].last < now
    /\ runlog[i].id \in Ids(Tbl)
    /\ LastOf(Tbl[runlog[i].id]) = now

\* Every writer of the tracked rows: the runs, provisioning and renewal of
\* each runner, and direct calls of UserService.update_secret_expiry.
NextStore ==
  \/ \E d \in TickSteps : Tick(d)
  \/ \E app \in Apps : CreateApplication(app, "ok")
  \/ \E app \in Apps : RenewApplicationSecret(app, "ok")
  \/ \E id \in 1..MaxSecrets : UpdateSecretExpiry(id, TRUE)
  \/ \E ocs \in RunOutcomes(get_expiring_secrets(app_secrets, now,
                  ExpiryThresholdDays, ResendIntervalDays), {"ok", "send_fail"}) :
       NotifyExpiry(ExpiryThresholdDays, TRUE, TRUE, ocs)
  \/ \E ocs \in RunOutcomes(get_expired_secrets(app_secrets, now,
                  ResendIntervalDays), {"ok", "send_fail"}) :
       NotifyExpired(TRUE, TRUE, ocs)
  \/ NextMonitor
  \/ NextCheck

SpecStore == Init /\ [][NextStore]_vars

\* C19: a create_application answered 200 has inserted one secret row for the
\* application whose stored expiry is the planned expiry (now + 730 days, now
\* + 10 minutes in test mode) and whose three flags are false.
C19_Provisioning ==
  [][(last_op'.name = "create" /\ last_op'.status = 200) =>
       /\ Len(app_secrets') = Len(app_secrets) + 1
       /\ LET row == app_secrets'[Len(app_secrets')]
          IN /\ row.app_name = last_op'.arg
             /\ row.end_date = now + (IF is_testing THEN TestExpiryMinutes
                                      ELSE ProdExpiryDays * Day)
             /\ ~row.notified_upcoming
             /\ ~row.notified_expired
             /\ ~row.notified_renewal]_vars

\* create_application has just answered 200 and the row of the application
\* is in the table.
C19_Witness ==
  /\ last_op.name = "create"
  /\ last_op.status = 200
  /\ \E id \in Ids(app_secrets) :
       /\ app_secrets[id].app_name = last_op.arg
       /\ app_secrets[id].last_updated_at = now
       /\ app_secrets[id].end_date > now

(* ------------------ concurrent create_application ----------------------- *)

\* AppController.create_application up to the name check: the database and
\* the token are available, search_application and search_service_principal
\* find nothing under the name, and the request goes on to create.
CreateBegin(app) ==
  /\ program = "flask"
  /\ inflight[app] < MaxInflight
  /\ azure[app].regs = 0
  /\ inflight' = [inflight EXCEPT ![app] = @ + 1]
  /\ last_op' = Op("create_begin", app, 0)
  /\ runlog' = <<>>
  /\ UNCHANGED <<program, overlap, is_testing, now, ticks, user_info, app_secrets, azure,
                 spn_info, mon_pc>>

\* The rest of create_application for a request that passed the name check:
\* the application is created in Azure and the two rows are stored.
CreateFinish(app) ==
  /\ program = "flask"
  /\ inflight[app] > 0
  /\ Len(user_info) < MaxSecrets
  /\ Len(app_secrets) < MaxSecrets
  /\ LET stored == store_user_and_secret(user_info, app_secrets, app, "initial",
                                         now + ExpiryOf(is_testing), now, "ok")
     IN /\ azure' = azure_create_application(azure, app, now)
        /\ user_info' = stored.ui
        /\ app_secrets' = stored.sec
  /\ inflight' = [inflight EXCEPT ![app] = @ - 1]
  /\ last_op' = Op("create", app, 200)
  /\ runlog' = <<>>
  /\ UNCHANGED <<program, overlap, is_testing, now, ticks, spn_info, mon_pc>>

\* The web application with create requests served concurrently.
NextFlaskConcurrent ==
  \/ NextFlask
  \/ \E app \in Apps : CreateBegin(app)
  \/ \E app \in Apps : CreateFinish(app)

SpecFlaskConcurrent == InitFlask /\ [][NextFlaskConcurrent]_vars

\* C20: at most one application is registered in Azure under a display name
\* and at most one user_info row is stored for it.
C20_UniqueNames ==
  \A a \in Apps :
    /\ azure[a].regs <= 1
    /\ Cardinality({i \in Ids(user_info) : user_info[i].app_name = a}) <= 1

(* --------------------- claims on flags and runs ------------------------- *)

FlagColumns == {"notified_upcoming", "notified_expired", "notified_renewal"}

\* No flag of a row that exists before and after the step goes from true to
\* false.
NoFlagCleared ==
  \A id \in Ids(Tbl), k \in FlagColumns :
    FlagOf(Tbl[id], k) => FlagOf(Tbl'[id], k)

\* C21 as stated: every notification sent leaves the flag of its kind true
\* and the last-notification time equal to now, and no step clears a flag.
C21_SendSetsFlag ==
  [][(program \in {"flask", "monitor"}) =>
       /\ NoFlagCleared
       /\ \A i \in NewIdx :
            (RunKind(last_op'.name) \in FlagColumns /\ runlog'[i].sent) =>
              /\ FlagOf(Tbl'[runlog'[i].id], runlog'[i].kind)
              /\ LastOf(Tbl'[runlog'[i].id]) = now]_vars

\* C21 amended: every notification sent whose flag write reaches the database
\* leaves the flag of its kind true and the last-notification time equal to
\* now; when the write fails the row is left as it was; no step clears a flag.
C21_SendSetsFlagWhenWritten ==
  [][(program \in {"flask", "monitor"}) =>
       /\ NoFlagCleared
       /\ \A i \in NewIdx :
            (RunKind(last_op'.name) \in FlagColumns /\ runlog'[i].sent) =>
              IF runlog'[i].outcome = "mark_fail"
              THEN Tbl'[runlog'[i].id] = Tbl[runlog'[i].id]
              ELSE /\ FlagOf(Tbl'[runlog'[i].id], runlog'[i].kind)
                   /\ LastOf(Tbl'[runlog'[i].id]) = now]_vars

\* An expired notification has just been sent and flagged for a row whose
\* upcoming flag was set earlier and is still set.
C21_Witness ==
  \E i \in 1..Len(runlog) :
    /\ runlog[i].sent
    /\ runlog[i].kind = "notified_expired"
    /\ runlog[i].at = now
    /\ Tbl[runlog[i].id].notified_upcoming
    /\ Tbl[runlog[i].id].notified_expired
    /\ LastOf(Tbl[runlog[i].id]) = now

\* C22: within one run of the monitor no renewal confirmation for an
\* application is sent after an upcoming or expired email for that
\* application: renewal detection comes first.
C22_RenewalBeforeUrgency ==
  (program = "monitor") =>
    \A i, j \in 1..Len(runlog) :
      ~ /\ i < j
        /\ runlog[i].app = runlog[j].app
        /\ runlog[i].kind \in FlagKinds
        /\ runlog[j].kind = "notified_renewal"
        /\ runlog[i].sent
        /\ runlog[j].sent

\* A log entry whose iteration executed the UPDATE of its row.
WroteRow(e) ==
  IF program = "flask" THEN e.outcome = "ok"
  ELSE IF program = "monitor" THEN e.outcome # "mark_fail"
  ELSE FALSE

\* C23: within one run the stored row of an application is written at most
\* once.
C23_OneWritePerRun ==
  \A id \in Ids(Tbl) :
    Cardinality({i \in 1..Len(runlog) : runlog[i].id = id /\ WroteRow(runlog[i])}) <= 1

\* C26: the number of notifications a run of the upcoming-expiry or of the
\* expired route reports to its caller equals the number of emails sent
\* successfully in that run.
C26_SummaryAccurate ==
  [][(last_op'.name \in {"notify_expiry", "notify_expired"}) =>
       last_op'.reported = Cardinality({i \in NewIdx : runlog'[i].sent})]_vars

(* ------------- the provisioning routes under partial failures ----------- *)

\* create_application and renew_application_secret with every failure the
\* code handles, including a failure between the two INSERTs of
\* store_user_and_secret and a database failure after addPassword.
NextFlaskFaults ==
  \/ \E d \in TickSteps : Tick(d)
  \/ \E app \in Apps, oc \in CreateOutcomes : CreateApplication(app, oc)
  \/ \E app \in Apps, oc \in RenewOutcomes : RenewApplicationSecret(app, oc)

SpecFlaskFaults == InitFlask /\ [][NextFlaskFaults]_vars

\* C27: a create_application call that returns a non-200 result leaves no
\* new application at the identity provider and no new user_info or
\* app_secrets row.
C27_CreateAllOrNothing ==
  [][(last_op'.name = "create" /\ last_op'.status # 200) =>
       /\ azure' = azure
       /\ user_info' = user_info
       /\ app_secrets' = app_secrets]_vars

\* C28: after a renew_application_secret call a secret was added at the
\* identity provider if and only if an unflagged app_secrets row with the new
\* expiry was inserted for the application, and the call returns 200 only
\* when both happened.
C28_RenewConsistent ==
  [][(last_op'.name = "renew") =>
       LET app == last_op'.arg
           added == azure'[app].creds = azure[app].creds + 1
           row == /\ Len(app_secrets') = Len(app_secrets) + 1
                  /\ app_secrets'[Len(app_secrets')] =
                       NewSecretRow(app, "renewed", now + ExpiryOf(is_testing),
                                    LatestUserInfoId(user_info, app), now)
       IN /\ added <=> row
          /\ (last_op'.status = 200) => (added /\ row)]_vars

\* C29: store_user_and_secret inserts both rows or neither: a
\* create_application call never leaves a user_info row without its
\* app_secrets row.
C29_StoreAtomic ==
  [][(last_op'.name = "create") =>
       ((Len(user_info') = Len(user_info) + 1)
          <=> (Len(app_secrets') = Len(app_secrets) + 1))]_vars

\* C30: last_updated_at of an app_secrets row changes only in a step that
\* sent a notification for that row.
C30_ThrottleStampFrame ==
  [][\A id \in Ids(app_secrets) :
       (program = "flask" /\ id \in Ids(app_secrets')
          /\ app_secrets'[id].last_updated_at # app_secrets[id].last_updated_at) =>
         /\ RunKind(last_op'.name) \in FlagKinds
         /\ \E i \in NewIdx : runlog'[i].id = id /\ runlog'[i].sent]_vars

(* ------------------ the expired query and test_query.py ----------------- *)

\* T-SQL DATEDIFF(day, a, b): the number of midnights between a and b.
DATEDIFF_day(a, b) == (b \div Day) - (a \div Day)

\* The rows the query of test_query.py selects for an application.
test_expired_query(sec, app, t) ==
  {i \in Ids(sec) :
     /\ sec[i].app_name = app
     /\ sec[i].end_date < t
     /\ \/ ~sec[i].notified_expired
        \/ /\ sec[i].notified_expired
           /\ DATEDIFF_day(sec[i].last_updated_at, t) >= ResendIntervalDays}

\* Clock steps that reach both sides of a midnight.
QueryTickSteps == {1, Day - 1, Day}

\* Running test_query.py for an application: the rows found are printed.
TestExpiredQuery(app) ==
  /\ program = "flask"
  /\ LET res == SortedSeq(test_expired_query(app_secrets, app, now))
     IN /\ runlog' = [i \in 1..Len(res) |->
                        [LogEntry(res[i], app_secrets[res[i]], "notified_expired",
                                  "ok", FALSE, now) EXCEPT !.kind = "test_query"]]
        /\ last_op' = RunOp("test_query", app, 200, Len(res), TRUE, TRUE, 1)
  /\ UNCHANGED <<program, inflight, overlap, is_testing, now, ticks, user_info,
                 app_secrets, azure, spn_info, mon_pc>>

\* A test deployment at midnight, one application just created.
InitQuery ==
  /\ program = "flask"
  /\ is_testing = TRUE
  /\ now = 0
  /\ ticks = 0
  /\ inflight = [a \in Apps |-> 0]
  /\ mon_pc = "idle"
  /\ runlog = <<>>
  /\ last_op = Op("init", 0, 0)
  /\ overlap = NoOverlap
  /\ user_info = <<[app_name |-> 1]>>
  /\ app_secrets = <<NewSecretRow(1, "initial", ExpiryOf(TRUE), 1, 0)>>
  /\ azure = azure_create_application([a \in Apps |-> NoApp], 1, 0)
  /\ spn_info = <<>>

NextQuery ==
  \/ \E d \in QueryTickSteps : Tick(d)
  \/ \E ocs \in RunOutcomes(get_expired_secrets(app_secrets, now,
                              ResendIntervalDays), {"ok", "send_fail"}) :
       NotifyExpired(TRUE, TRUE, ocs)
  \/ \E app \in Apps : TestExpiredQuery(app)

SpecQuery == InitQuery /\ [][NextQuery]_vars

\* The rows of an application that get_expired_secrets selects.
ExpiredOfApp(app) ==
  {i \in get_expired_secrets(app_secrets, now, ResendIntervalDays) :
     app_secrets[i].app_name = app}

\* C25 as stated: for every application and time, get_expired_secrets with a
\* resend interval of 2 selects exactly the rows the test query selects.
C25_SameSelection ==
  \A app \in Apps : ExpiredOfApp(app) = test_expired_query(app_secrets, app, now)

(* ------------------- notification runs that overlap --------------------- *)

\* The query of a notification run of a kind, with the defaults of app.py.
DueOf(sec, column, t) ==
  IF column = "notified_upcoming"
  THEN get_expiring_secrets(sec, t, ExpiryThresholdDays, ResendIntervalDays)
  ELSE get_expired_secrets(sec, t, ResendIntervalDays)

OverlapOutcomes == {"ok", "send_fail"}

\* One iteration of the loop that writes the row it read at query time back
\* as a whole, with the flag and the timestamp set.
OverlapOne_writeback(ui, cur, snap, id, column, oc, t) ==
  LET st == NotifyOne([ui |-> ui, sec |-> cur, log |-> <<>>, count |-> 0],
                      id, column, oc, t)
  IN [sec |-> IF st.sec # cur
              THEN [cur EXCEPT ![id] = mark_secret_notified(snap, id, column, t)[id]]
              ELSE cur,
      entry |-> LogEntry(id, snap[id], column, st.log[1].outcome,
                         st.log[1].sent, t)]

\* One iteration of the loop of a notification run while another request may
\* be running: the email is built from the row as the query returned it
\* (snap), the UPDATE of mark_secret_notified acts on the table as it is now
\* (cur).
OverlapOne(ui, cur, snap, id, column, oc, t) ==
  LET st == NotifyOne([ui |-> ui, sec |-> cur, log |-> <<>>, count |-> 0],
                      id, column, oc, t)
  IN [sec |-> st.sec,
      entry |-> LogEntry(id, snap[id], column, st.log[1].outcome,
                         st.log[1].sent, t)]

\* A request of a kind arrives and runs its query.
OverlapBegin(r, column) ==
  /\ program = "flask"
  /\ overlap.run[r].pc = "idle"
  /\ app_secrets # <<>>
  /\ LET todo == SortedSeq(DueOf(app_secrets, column, now))
         started == \E o \in 1..2 : overlap.run[o].pc # "idle"
     IN overlap' =
          [base |-> IF started THEN overlap.base ELSE app_secrets,
           run |-> [overlap.run EXCEPT ![r] =
                      [pc |-> IF todo = <<>> THEN "done" ELSE "loop",
                       column |-> column, q |-> now, todo |-> todo,
                       snap |-> app_secrets, hist |-> {}]]]
  /\ last_op' = Op("overlap_begin", r, 200)
  /\ runlog' = <<>>
  /\ UNCHANGED <<program, inflight, is_testing, now, ticks, user_info,
                 app_secrets, azure, spn_info, mon_pc>>

\* A running request handles the next row of its result.
OverlapRow(r, oc) ==
  /\ program = "flask"
  /\ overlap.run[r].pc = "loop"
  /\ LET run == overlap.run[r]
         id == Head(run.todo)
         res == OverlapOne(user_info, app_secrets, run.snap, id, run.column,
                           oc, now)
     IN /\ app_secrets' = res.sec
        /\ overlap' =
             [overlap EXCEPT
                !.run[r].todo = Tail(run.todo),
                !.run[r].hist = run.hist \cup {[id |-> id, oc |-> oc, w |-> now]},
                !.run[r].pc = IF Tail(run.todo) = <<>> THEN "done" ELSE "loop"]
        /\ runlog' = <<res.entry>>
        /\ last_op' = RunOp("overlap_row", r, 200,
                            IF res.entry.sent THEN 1 ELSE 0, TRUE, TRUE, 1)
  /\ UNCHANGED <<program, inflight, is_testing, now, ticks, user_info, azure,
                 spn_info, mon_pc>>

\* The requests have returned.
OverlapEnd ==
  /\ program = "flask"
  /\ \A r \in 1..2 : overlap.run[r].pc # "loop"
  /\ \E r \in 1..2 : overlap.run[r].pc = "done"
  /\ overlap' = NoOverlap
  /\ last_op' = Op("overlap_end", 0, 200)
  /\ runlog' = <<>>
  /\ UNCHANGED <<program, inflight, is_testing, now, ticks, user_info,
                 app_secrets, azure, spn_info, mon_pc>>

NextOverlap ==
  \/ \E d \in TickSteps : Tick(d)
  \/ \E app \in Apps : overlap = NoOverlap /\ CreateApplication(app, "ok")
  \/ \E r \in 1..2, column \in FlagKinds : OverlapBegin(r, column)
  \/ \E r \in 1..2, oc \in OverlapOutcomes : OverlapRow(r, oc)
  \/ OverlapEnd

SpecOverlap == InitFlask /\ [][NextOverlap]_vars

\* A request executed alone on a table, with the clock readings and the send
\* results it had: its query at its time q, then its loop. A row it did not
\* handle when it ran gets a failed send.
RECURSIVE ReplayLoop(_, _, _, _)
ReplayLoop(sec, snap, todo, run) ==
  IF todo = <<>> THEN sec
  ELSE LET id == Head(todo)
           rec == {h \in run.hist : h.id = id}
           h == CHOOSE x \in rec : TRUE
           oc == IF rec = {} THEN "send_fail" ELSE h.oc
           w == IF rec = {} THEN run.q ELSE h.w
       IN ReplayLoop(OverlapOne(user_info, sec, snap, id, run.column, oc, w).sec,
                     snap, Tail(todo), run)

Replay(sec, run) ==
  IF run.pc = "idle" THEN sec
  ELSE ReplayLoop(sec, sec, SortedSeq(DueOf(sec, run.column, run.q)), run)

\* C24: when two notification requests that ran at the same time have both
\* returned, every row is in the state one of the two serial executions of
\* the requests leaves it in.
C24_OverlapSerializable ==
  (\A r \in 1..2 : overlap.run[r].pc = "done") =>
    LET ab == Replay(Replay(overlap.base, overlap.run[1]), overlap.run[2])
        ba == Replay(Replay(overlap.base, overlap.run[2]), overlap.run[1])
    IN /\ Len(app_secrets) = Len(overlap.base)
       /\ \A id \in Ids(app_secrets) : app_secrets[id] \in {ab[id], ba[id]}

\* Two requests of the same kind have both returned and both sent the email
\* of the same row.
C24_Witness ==
  /\ \A r \in 1..2 : overlap.run[r].pc = "done"
  /\ overlap.run[1].column = overlap.run[2].column
  /\ \E h1 \in overlap.run[1].hist, h2 \in overlap.run[2].hist :
       /\ h1.id = h2.id
       /\ h1.oc = "ok"
       /\ h2.oc = "ok"
       /\ FlagOf(app_secrets[h1.id], overlap.run[1].column)

====
